---- MODULE Spec2Model ----
(***************************************************************************)
(* Model of dealer-sub (src/index.js): a Dealer keeps an ordered registry  *)
(* of subscriptions, pulls messages of the types some subscription waits   *)
(* for, and deals each pulled message to the first waiting subscription of *)
(* its type, which it then rotates to the tail of the registry.            *)
(*                                                                         *)
(* Each public operation of Dealer is one action.  A message handler is    *)
(* user code; _deal invokes it after all of its own state changes, so what *)
(* a handler does (complete, unsubscribe, check, ...) is modelled by the   *)
(* actions that may follow the dealing step.                               *)
(***************************************************************************)
EXTENDS Integers, Sequences, FiniteSets

\* ------------------------------------------------------------- bounds
\* Number of subscribe calls explored (each creates one record object).
MaxRecords == 2
\* Largest concurrency passed to subscribe.
MaxConcurrency == 2
\* Number of start() calls that arm a timer.
MaxTimers == 2
\* Number of setImmediate(check) callbacks pending at once.
MaxImmediates == 1
\* Number of push(message) calls explored.
MaxMessages == 2
\* Number of subscribe calls explored where the registry is explored alone.
MaxQueue == 3

\* ------------------------------------------------------------- inputs
Subscribers == {1, 2}
Types == {"a", "b"}
\* unsubscribe(subscriber) with the type argument omitted: `!type` is true.
NoType == ""
\* The value of this.check, a function and not a timer handle.
CheckFn == 0
\* What an external pull source may answer besides a message.
PullError == "error"
PullEmpty == "empty"
\* The message argument of a callback called without one (undefined or null).
NoMessage == [type |-> "", id |-> 0]
\* The type recorded for an operation that passed no message to _deal.
NotDealt == "none"

VARIABLES
    subscriptions,  \* this._subscriptions: the registry, in order
    messages,       \* this._messages: the pending-message buffer
    started,        \* this._started
    checking,       \* this._checking
    external,       \* whether options.pull was given (else _pullFromMessages)
    timers,         \* handles of the interval timers armed by setInterval
    immediates,     \* number of pending setImmediate(this.check) callbacks
    pulls,          \* calls of the external pull source whose callback is pending
    records,        \* every record object created so far, by identity
    inflight,       \* per record: messages dealt to it, completion not signalled
    nextMessage,    \* identity of the next pushed message
    last            \* what the last operation did

progVars == <<subscriptions, messages, started, checking, timers, immediates, pulls>>
vars == <<subscriptions, messages, started, checking, external, timers,
          immediates, pulls, records, inflight, nextMessage, last>>

\* ------------------------------------------------------------ helpers
Range(s) == {s[i] : i \in 1..Len(s)}

\* Array.prototype.splice(index, 1)
Splice(s, k) == [i \in 1..(Len(s) - 1) |-> IF i < k THEN s[i] ELSE s[i + 1]]

\* message => message.type
TypeSelector(message) == message.type

\* (a variant that lets a full subscription count as waiting)
IsWaitingSubscriptionInclusive(subscription) ==
    subscription.current <= subscription.concurrency

IsWaitingSubscription(subscription) ==
    subscription.current < subscription.concurrency

\* (a variant that adds to an array, which keeps duplicates)
SetAddAlways(acc, t) == Append(acc, t)

\* Set.prototype.add on an insertion-ordered set
SetAdd(acc, t) == IF t \in Range(acc) THEN acc ELSE Append(acc, t)

RECURSIVE WaitingTypesFrom(_, _, _)
WaitingTypesFrom(subs, i, acc) ==
    IF i > Len(subs) THEN acc
    ELSE WaitingTypesFrom(subs, i + 1,
            IF IsWaitingSubscription(subs[i]) THEN SetAdd(acc, subs[i].type)
            ELSE acc)

\* (a variant that reports the type of every subscription, waiting or not)
GetSubscriptionTypes(subs) ==
    LET all == [i \in 1..Len(subs) |-> subs[i].type]
        first == {i \in 1..Len(subs) : \A j \in 1..(i - 1) : all[j] # all[i]}
    IN [k \in 1..Cardinality(first) |->
            all[CHOOSE i \in first : Cardinality({j \in first : j <= i}) = k]]

\* The array of distinct types with a waiting subscription, in registry order.
GetWaitingSubscriptionTypes(subs) == WaitingTypesFrom(subs, 1, <<>>)

\* (a variant that matches on the type alone)
FindSubscriptionIndexOfType(subs, type) ==
    LET hits == {i \in 1..Len(subs) : subs[i].type = type}
    IN IF hits = {} THEN 0 ELSE CHOOSE i \in hits : \A j \in hits : i <= j

\* findIndex: the first index (from 1) that matches, 0 for JavaScript's -1.
FindWaitingSubscriptionIndex(subs, type) ==
    LET hits == {i \in 1..Len(subs) :
                    subs[i].type = type /\ IsWaitingSubscription(subs[i])}
    IN IF hits = {} THEN 0 ELSE CHOOSE i \in hits : \A j \in hits : i <= j

\* (a variant that puts the new record at the front of the registry)
SubscribeUnshift(subs, rid, subscriber, type, concurrency) ==
    <<[rid |-> rid, subscriber |-> subscriber, type |-> type,
       concurrency |-> concurrency, current |-> 0]>> \o subs

\* subscribe: push a new record with current 0.
SubscribePush(subs, rid, subscriber, type, concurrency) ==
    Append(subs, [rid |-> rid, subscriber |-> subscriber, type |-> type,
                  concurrency |-> concurrency, current |-> 0])

\* unsubscribe: forEach visits the indices 0..len-1 of the length the array had
\* when the loop began, skipping an index the array no longer has; the callback
\* splices the visited element out when it matches.
RECURSIVE UnsubscribeLoop(_, _, _, _, _)
UnsubscribeLoop(subs, k, len, subscriber, type) ==
    IF k > len THEN subs
    ELSE IF k > Len(subs) THEN UnsubscribeLoop(subs, k + 1, len, subscriber, type)
    ELSE IF subs[k].subscriber = subscriber /\ (type = NoType \/ subs[k].type = type)
         THEN UnsubscribeLoop(Splice(subs, k), k + 1, len, subscriber, type)
         ELSE UnsubscribeLoop(subs, k + 1, len, subscriber, type)

UnsubscribeAll(subs, subscriber, type) ==
    UnsubscribeLoop(subs, 1, Len(subs), subscriber, type)

\* (a variant that finds the last such record, not the first)
CompleteIndexLast(subs, subscriber, type) ==
    LET hits == {i \in 1..Len(subs) :
                    /\ subs[i].subscriber = subscriber
                    /\ subs[i].type = type
                    /\ subs[i].current > 0}
    IN IF hits = {} THEN 0 ELSE CHOOSE i \in hits : \A j \in hits : i >= j

\* (a variant that does not test current > 0)
CompleteRecordUnchecked(subs, subscriber, type) ==
    LET hits == {i \in 1..Len(subs) :
                    subs[i].subscriber = subscriber /\ subs[i].type = type}
    IN IF hits = {} THEN subs
       ELSE LET i == CHOOSE i \in hits : \A j \in hits : i <= j
            IN [subs EXCEPT ![i].current = subs[i].current - 1]

\* complete: find the first record of the subscriber and type with current > 0.
CompleteIndex(subs, subscriber, type) ==
    LET hits == {i \in 1..Len(subs) :
                    /\ subs[i].subscriber = subscriber
                    /\ subs[i].type = type
                    /\ subs[i].current > 0}
    IN IF hits = {} THEN 0 ELSE CHOOSE i \in hits : \A j \in hits : i <= j

CompleteRecord(subs, subscriber, type) ==
    LET i == CompleteIndex(subs, subscriber, type)
    IN IF i = 0 THEN subs
       ELSE [subs EXCEPT ![i].current = subs[i].current - 1]

\* (a variant that leaves the chosen record where it is)
DealInPlace(subs, index) ==
    [subs EXCEPT ![index].current = subs[index].current + 1]

\* _deal, the registry after it: the chosen record is spliced out, pushed at
\* the end and its current incremented.
DealRotate(subs, index) ==
    LET subscription == subs[index]
    IN Append(Splice(subs, index),
              [subscription EXCEPT !.current = subscription.current + 1])

\* (a variant that serves the last waiting record of the type, not the first)
DealLastWaiting(subs, message) ==
    LET type == TypeSelector(message)
        hits == {i \in 1..Len(subs) :
                    subs[i].type = type /\ IsWaitingSubscription(subs[i])}
        index == IF hits = {} THEN 0 ELSE CHOOSE i \in hits : \A j \in hits : i >= j
    IN IF index = 0
       THEN [subs |-> subs, invoked |-> <<>>]
       ELSE [subs |-> DealRotate(subs, index), invoked |-> <<subs[index].rid>>]

\* _deal: the registry after the call and the records whose handler it invoked.
Deal(subs, message) ==
    LET type == TypeSelector(message)
        index == FindWaitingSubscriptionIndex(subs, type)
    IN IF index = 0
       THEN [subs |-> subs, invoked |-> <<>>]
       ELSE [subs |-> DealRotate(subs, index), invoked |-> <<subs[index].rid>>]

\* (a variant that takes the last buffered message of a requested type)
PullIndexLast(msgs, types) ==
    LET hits == {i \in 1..Len(msgs) : TypeSelector(msgs[i]) \in Range(types)}
    IN IF hits = {} THEN 0 ELSE CHOOSE i \in hits : \A j \in hits : i >= j

\* _pullFromMessages: the first buffered message whose type is requested is
\* spliced out and handed to the callback; index 0 stands for "no message".
PullIndex(msgs, types) ==
    LET hits == {i \in 1..Len(msgs) : TypeSelector(msgs[i]) \in Range(types)}
    IN IF hits = {} THEN 0 ELSE CHOOSE i \in hits : \A j \in hits : i <= j

\* clearInterval(handle): cancels the timer with that handle, if there is one.
ClearInterval(ts, handle) == ts \ {handle}

\* subscribe: `concurrency || 1`
Concurrency(c) == IF c = 0 THEN 1 ELSE c

\* ------------------------------------------------------ check and pull
\* F applied to v, with v computed once: a local `const x = v` followed by
\* code that uses x.
With(v, F(_)) == CHOOSE r \in {F(x) : x \in {v}} : TRUE

\* The dealer's fields as one record, with what the operation under way has
\* done so far: whether it called the pull source, the type and identity of the
\* message it passed to _deal, the records whose handler it invoked, and the
\* busy flag and the number of scheduled follow-up checks as they stood when
\* _deal was entered (what a handler run by _deal observes).
Fields ==
    [subscriptions |-> subscriptions, messages |-> messages, checking |-> checking,
     pulls |-> pulls, immediates |-> immediates,
     pulled |-> FALSE, dealt |-> NotDealt, invoked |-> <<>>,
     message |-> 0, busy |-> FALSE, queued |-> 0]

\* _deal(message) on the fields.
DealMessage(d, message) ==
    With(Deal(d.subscriptions, message), LAMBDA r :
         [d EXCEPT !.subscriptions = r.subs,
                   !.dealt = TypeSelector(message),
                   !.invoked = r.invoked,
                   !.message = message.id,
                   !.busy = d.checking,
                   !.queued = d.immediates])

\* (a variant that deals the message before it clears the busy flag and
\* schedules the follow-up check)
PullCallbackDealFirst(d, err, message) ==
    IF err \/ message = NoMessage THEN [d EXCEPT !.checking = FALSE]
    ELSE LET after == DealMessage(d, message)
         IN [after EXCEPT !.checking = FALSE, !.immediates = after.immediates + 1]

\* (a variant that returns on an error before it clears the busy flag)
PullCallbackStuckOnError(d, err, message) ==
    IF err THEN d
    ELSE LET idle == [d EXCEPT !.checking = FALSE]
         IN IF message = NoMessage THEN idle
            ELSE DealMessage([idle EXCEPT !.immediates = idle.immediates + 1], message)

\* The callback check() passes to the pull source: (err, message) => {...}.
\* `message` is a message record, or NoMessage for undefined/null.
PullCallback(d, err, message) ==
    LET idle == [d EXCEPT !.checking = FALSE]
    IN IF err THEN idle
       ELSE IF message = NoMessage THEN idle
       ELSE With([idle EXCEPT !.immediates = idle.immediates + 1],
                 LAMBDA scheduled : DealMessage(scheduled, message))

\* (a variant that returns from an empty buffer without calling the callback)
PullFromMessagesNoCallback(d, types) ==
    IF Len(d.messages) = 0 THEN d
    ELSE LET index == PullIndex(d.messages, types)
         IN IF index = 0 THEN PullCallback(d, FALSE, NoMessage)
            ELSE PullCallback([d EXCEPT !.messages = Splice(d.messages, index)],
                              FALSE, d.messages[index])

\* _pullFromMessages(types, callback): synchronous, from the buffer.
PullFromMessages(d, types) ==
    IF Len(d.messages) = 0 THEN PullCallback(d, FALSE, NoMessage)
    ELSE With(PullIndex(d.messages, types), LAMBDA index :
            IF index = 0 THEN PullCallback(d, FALSE, NoMessage)
            ELSE With([d EXCEPT !.messages = Splice(d.messages, index)],
                      LAMBDA spliced : PullCallback(spliced, FALSE, d.messages[index])))

\* (a variant without the guard against overlapping checks)
CheckOverlapping(d, ext) ==
    LET types == GetWaitingSubscriptionTypes(d.subscriptions)
    IN IF Len(types) = 0 THEN d
       ELSE LET busy == [d EXCEPT !.checking = TRUE, !.pulled = TRUE]
            IN IF ext THEN [busy EXCEPT !.pulls = Append(busy.pulls, types)]
               ELSE PullFromMessages(busy, types)

\* (a variant without the guard for "no waiting subscriptions")
CheckAlways(d, ext) ==
    IF d.checking THEN d
    ELSE LET types == GetWaitingSubscriptionTypes(d.subscriptions)
             busy == [d EXCEPT !.checking = TRUE, !.pulled = TRUE]
         IN IF ext THEN [busy EXCEPT !.pulls = Append(busy.pulls, types)]
            ELSE PullFromMessages(busy, types)

\* check(): `ext` tells whether this._pull is an external source, whose call
\* stays outstanding until its callback runs, or _pullFromMessages.
Check(d, ext) ==
    IF d.checking THEN d
    ELSE With(GetWaitingSubscriptionTypes(d.subscriptions), LAMBDA types :
            IF Len(types) = 0 THEN d
            ELSE With([d EXCEPT !.checking = TRUE, !.pulled = TRUE], LAMBDA busy :
                    IF ext THEN [busy EXCEPT !.pulls = Append(busy.pulls, types)]
                    ELSE PullFromMessages(busy, types)))

\* ---------------------------------------------------- bookkeeping
\* One more message in flight for each record whose handler was invoked.
RECURSIVE Handed(_, _)
Handed(fl, invoked) ==
    IF invoked = <<>> THEN fl
    ELSE Handed([fl EXCEPT ![Head(invoked)] = fl[Head(invoked)] + 1], Tail(invoked))

\* After a deal that invoked a handler: the record a further message of the
\* same type would find first besides the one just served (0 when none).
NextInTurn(subs, type, invoked) ==
    LET hits == {i \in 1..Len(subs) :
                    /\ subs[i].type = type
                    /\ IsWaitingSubscription(subs[i])
                    /\ subs[i].rid \notin Range(invoked)}
    IN IF invoked = <<>> \/ hits = {} THEN 0
       ELSE subs[CHOOSE i \in hits : \A j \in hits : i <= j].rid

\* The record of an operation: its name, the record it was aimed at, what the
\* resulting fields d report, and `asked`: the message came from a pull that had
\* requested its type.  `handled` collects the identities of the buffered
\* messages that have been handed to a handler so far.
Report(op, target, d, asked) ==
    [op |-> op, target |-> target, pulled |-> d.pulled, asked |-> asked,
     dealt |-> d.dealt, invoked |-> d.invoked,
     next |-> NextInTurn(d.subscriptions, d.dealt, d.invoked),
     expect |-> IF d.dealt # NotDealt /\ d.dealt = last.dealt THEN last.next ELSE 0,
     message |-> d.message, busy |-> d.busy, queued |-> d.queued,
     handled |-> IF d.message # 0 /\ d.invoked # <<>>
                 THEN last.handled \cup {d.message} ELSE last.handled]

\* The fields d become the dealer's state.
Becomes(d) ==
    /\ d.immediates <= MaxImmediates
    /\ subscriptions' = d.subscriptions
    /\ messages' = d.messages
    /\ checking' = d.checking
    /\ pulls' = d.pulls
    /\ immediates' = d.immediates
    /\ inflight' = Handed(inflight, d.invoked)

\* ------------------------------------------------------------ actions
\* The dealer as constructed, with an external pull source or without one,
\* and with options.messages as its buffer.
ConstructedWith(ext, msgs) ==
    /\ subscriptions = <<>>
    /\ messages = msgs
    /\ started = FALSE
    /\ checking = FALSE
    /\ external = ext
    /\ timers = {}
    /\ immediates = 0
    /\ pulls = <<>>
    /\ records = <<>>
    /\ inflight = <<>>
    /\ nextMessage = Len(msgs) + 1
    /\ last = [op |-> "new", target |-> 0, pulled |-> FALSE, asked |-> FALSE,
               dealt |-> NotDealt, invoked |-> <<>>, next |-> 0, expect |-> 0,
               message |-> 0, busy |-> FALSE, queued |-> 0, handled |-> {}]

\* options.messages absent: `options.messages || []`
Constructed(ext) == ConstructedWith(ext, <<>>)

\* new Dealer({ pull })
Init == Constructed(TRUE)

\* dealer.subscribe(subscriber, type, concurrency, handler)
SubscribeWithin(limit, subscriber, type, c) ==
    /\ Len(records) < limit
    /\ LET rid == Len(records) + 1
       IN /\ subscriptions' =
                SubscribePush(subscriptions, rid, subscriber, type, Concurrency(c))
          /\ records' = Append(records, [subscriber |-> subscriber, type |-> type,
                                         concurrency |-> Concurrency(c)])
          /\ inflight' = Append(inflight, 0)
          /\ last' = Report("subscribe", rid, Fields, FALSE)
    /\ UNCHANGED <<messages, started, checking, external, timers, immediates,
                   pulls, nextMessage>>

Subscribe(subscriber, type, c) == SubscribeWithin(MaxRecords, subscriber, type, c)

\* dealer.unsubscribe(subscriber, type), type possibly omitted
Unsubscribe(subscriber, type) ==
    /\ subscriptions' = UnsubscribeAll(subscriptions, subscriber, type)
    /\ last' = Report("unsubscribe", 0, Fields, FALSE)
    /\ UNCHANGED <<messages, started, checking, external, timers, immediates,
                   pulls, records, inflight, nextMessage>>

\* The handler of a message dealt to record rid signals completion, through
\* the closure _deal gave it or through Subscription.complete(): either way
\* dealer.complete(subscription.subscriber, subscription.type).
CompleteFn(rid) ==
    /\ inflight[rid] > 0
    /\ subscriptions' =
          CompleteRecord(subscriptions, records[rid].subscriber, records[rid].type)
    /\ inflight' = [inflight EXCEPT ![rid] = inflight[rid] - 1]
    /\ last' = Report("completeFn", rid, Fields, FALSE)
    /\ UNCHANGED <<messages, started, checking, external, timers, immediates,
                   pulls, records, nextMessage>>

\* dealer.complete(subscriber, type) with no message of that subscriber and
\* type in flight: a call no dealt message accounts for.
CompleteIdle(subscriber, type) ==
    /\ \A rid \in 1..Len(records) :
          (records[rid].subscriber = subscriber /\ records[rid].type = type)
              => inflight[rid] = 0
    /\ subscriptions' = CompleteRecord(subscriptions, subscriber, type)
    /\ last' = Report("complete", 0, Fields, FALSE)
    /\ UNCHANGED <<messages, started, checking, external, timers, immediates,
                   pulls, records, inflight, nextMessage>>

\* dealer._deal(message), called directly as the tests do
DealDirect(type) ==
    LET d == DealMessage(Fields, [type |-> type, id |-> 0])
    IN /\ Becomes(d)
       /\ last' = Report("deal", 0, d, FALSE)
       /\ UNCHANGED <<started, external, timers, records, nextMessage>>

\* dealer.push(message); explored for a dealer without external pull source
Push(type) ==
    /\ ~external
    /\ nextMessage <= MaxMessages
    /\ messages' = Append(messages, [type |-> type, id |-> nextMessage])
    /\ nextMessage' = nextMessage + 1
    /\ last' = Report("push", 0, Fields, FALSE)
    /\ UNCHANGED <<subscriptions, started, checking, external, timers,
                   immediates, pulls, records, inflight>>

\* dealer.check(), called by the user
CheckCall ==
    LET d == Check(Fields, external)
    IN /\ Becomes(d)
       /\ last' = Report("check", 0, d, d.dealt # NotDealt)
       /\ UNCHANGED <<started, external, timers, records, nextMessage>>

\* An interval timer fires: this.check
TimerTick ==
    /\ \E handle \in timers : \E d \in {Check(Fields, external)} :
          /\ Becomes(d)
          /\ last' = Report("tick", handle, d, d.dealt # NotDealt)
    /\ UNCHANGED <<started, external, timers, records, nextMessage>>

\* A setImmediate(this.check) callback runs
ImmediateCheck ==
    /\ immediates > 0
    /\ \E d \in {Check([Fields EXCEPT !.immediates = immediates - 1], external)} :
          /\ Becomes(d)
          /\ last' = Report("immediate", 0, d, d.dealt # NotDealt)
    /\ UNCHANGED <<started, external, timers, records, nextMessage>>

\* dealer.start(); also what the constructor's setImmediate runs for options.start
Start ==
    IF started
    THEN /\ last' = Report("start", 0, Fields, FALSE)
         /\ UNCHANGED <<subscriptions, messages, started, checking, external,
                        timers, immediates, pulls, records, inflight, nextMessage>>
    ELSE /\ Cardinality(timers) < MaxTimers
         /\ started' = TRUE
         /\ timers' = timers \cup {Cardinality(timers) + 1}
         /\ LET d == Check(Fields, external)
            IN /\ Becomes(d)
               /\ last' = Report("start", 0, d, d.dealt # NotDealt)
         /\ UNCHANGED <<external, records, nextMessage>>

\* dealer.stop(): clearInterval(this.check)
Stop ==
    /\ started' = FALSE
    /\ timers' = ClearInterval(timers, CheckFn)
    /\ last' = Report("stop", 0, Fields, FALSE)
    /\ UNCHANGED <<subscriptions, messages, checking, external, immediates,
                   pulls, records, inflight, nextMessage>>

\* The external pull source answers its oldest outstanding call, once: with an
\* error, with no message, or with a message of some type.
PullAnswer(outcome) ==
    /\ pulls # <<>>
    /\ LET requested == Head(pulls)
           answered == [Fields EXCEPT !.pulls = Tail(pulls)]
           d == IF outcome = PullError THEN PullCallback(answered, TRUE, NoMessage)
                ELSE IF outcome = PullEmpty THEN PullCallback(answered, FALSE, NoMessage)
                ELSE PullCallback(answered, FALSE, [type |-> outcome, id |-> 0])
       IN /\ Becomes(d)
          /\ last' = Report("callback", 0, d, outcome \in Range(requested))
    /\ UNCHANGED <<started, external, timers, records, nextMessage>>

\* The registry and the pull protocol of a dealer with an external pull source.
\* A timer tick is one more caller of check(), as CheckCall is.
Next ==
    \/ \E s \in Subscribers, t \in Types, c \in 0..MaxConcurrency : Subscribe(s, t, c)
    \/ \E s \in Subscribers, t \in Types \cup {NoType} : Unsubscribe(s, t)
    \/ \E rid \in 1..Len(records) : CompleteFn(rid)
    \/ \E s \in Subscribers, t \in Types : CompleteIdle(s, t)
    \/ \E t \in Types : DealDirect(t)
    \/ CheckCall
    \/ ImmediateCheck
    \/ \E outcome \in {PullError, PullEmpty} \cup Types : PullAnswer(outcome)

Spec == Init /\ [][Next]_vars

\* The scheduler of a dealer with an external pull source: start, stop, the
\* interval timers and every caller of check(), over subscriptions to one type.
NextScheduler ==
    \/ \E s \in Subscribers, c \in 0..MaxConcurrency : Subscribe(s, "a", c)
    \/ \E rid \in 1..Len(records) : CompleteFn(rid)
    \/ Start
    \/ Stop
    \/ TimerTick
    \/ CheckCall
    \/ ImmediateCheck
    \/ \E outcome \in {PullError, PullEmpty} \cup Types : PullAnswer(outcome)

SpecScheduler == Init /\ [][NextScheduler]_vars

\* The registry alone, with one record more than the other specifications
\* create: subscriptions come and go, messages are dealt and completed.
NextRegistry ==
    \/ \E s \in Subscribers, t \in Types, c \in 1..MaxConcurrency :
          SubscribeWithin(MaxQueue, s, t, c)
    \/ \E s \in Subscribers, t \in Types : Unsubscribe(s, t)
    \/ \E rid \in 1..Len(records) : CompleteFn(rid)
    \/ \E t \in Types : DealDirect(t)

SpecRegistry == Init /\ [][NextRegistry]_vars

\* new Dealer({ messages }): no pull source given, so check() pulls from the
\* dealer's own buffer, which starts as options.messages; the messages are
\* identified by their place in the order in which they enter the buffer.
InitBuffer ==
    \E n \in 0..MaxMessages : \E type \in [1..n -> Types] :
        ConstructedWith(FALSE, [k \in 1..n |-> [type |-> type[k], id |-> k]])

\* The registry and the buffer of a dealer with the default pull source.
NextBuffer ==
    \/ \E s \in Subscribers, t \in Types, c \in 0..MaxConcurrency : Subscribe(s, t, c)
    \/ \E s \in Subscribers, t \in Types \cup {NoType} : Unsubscribe(s, t)
    \/ \E rid \in 1..Len(records) : CompleteFn(rid)
    \/ \E t \in Types : Push(t)
    \/ CheckCall
    \/ ImmediateCheck

SpecBuffer == InitBuffer /\ [][NextBuffer]_vars

\* The dealer with the default pull source, started and left running: its
\* timer and its follow-up checks are the only callers of check(), and every
\* subscription takes one message at a time.
NextLive ==
    \/ \E s \in Subscribers, t \in Types : Subscribe(s, t, 1)
    \/ \E s \in Subscribers, t \in Types : Unsubscribe(s, t)
    \/ \E rid \in 1..Len(records) : CompleteFn(rid)
    \/ \E t \in Types : Push(t)
    \/ Start
    \/ TimerTick
    \/ ImmediateCheck

\* A record's handler signals the completion of a message dealt to it.
Completion(rid) == rid \in 1..Len(records) /\ CompleteFn(rid)

\* Node runs every armed interval timer and every setImmediate callback, and
\* every dealt message is eventually completed.
SpecLive ==
    /\ InitBuffer
    /\ [][NextLive]_vars
    /\ WF_vars(TimerTick)
    /\ WF_vars(ImmediateCheck)
    /\ \A rid \in 1..MaxRecords : WF_vars(Completion(rid))

\* ------------------------------------------------------------- claims
Waiting(subs) == {i \in 1..Len(subs) : subs[i].current < subs[i].concurrency}
WaitingOfType(subs, t) == {i \in Waiting(subs) : subs[i].type = t}
CheckOps == {"check", "tick", "immediate", "start"}

\* C1: every record of the registry has 0 <= current <= concurrency, in every
\* state reachable by subscribe, unsubscribe, deal, complete, check and
\* pull-callback steps.
C1_CurrentWithinConcurrency ==
    \A i \in 1..Len(subscriptions) :
        /\ 0 <= subscriptions[i].current
        /\ subscriptions[i].current <= subscriptions[i].concurrency

\* A record filled up to a concurrency of 2 beside a record brought back to 0
\* by a completion.
C1_Witness ==
    /\ last.op = "completeFn"
    /\ \E i, j \in 1..Len(subscriptions) :
          /\ subscriptions[i].concurrency >= 2
          /\ subscriptions[i].current = subscriptions[i].concurrency
          /\ subscriptions[j].current = 0
          /\ inflight[subscriptions[i].rid] = subscriptions[i].concurrency

\* C2: after unsubscribe(subscriber, type) no record of that subscriber and
\* type is left (no record of the subscriber at all when the type is omitted),
\* and the registry is shorter by exactly the number of records that matched.
C2_UnsubscribeRemovesEveryMatch ==
    [][\A s \in Subscribers, t \in Types \cup {NoType} :
          Unsubscribe(s, t) =>
            LET matched == {i \in 1..Len(subscriptions) :
                              /\ subscriptions[i].subscriber = s
                              /\ (t = NoType \/ subscriptions[i].type = t)}
            IN /\ \A j \in 1..Len(subscriptions') :
                    ~(/\ subscriptions'[j].subscriber = s
                      /\ (t = NoType \/ subscriptions'[j].type = t))
               /\ Len(subscriptions') = Len(subscriptions) - Cardinality(matched)]_vars

\* C3: for every record, the messages dealt to it whose completion has not
\* been signalled never outnumber its concurrency (each handler signals
\* completion at most once).
C3_InFlightWithinConcurrency ==
    \A rid \in 1..Len(records) : inflight[rid] <= records[rid].concurrency

\* C4: at most one call of the pull source is outstanding, and a check() made
\* by the timer, the follow-up or the caller while one is outstanding calls no
\* pull and changes nothing.
C4_OnePullOutstanding ==
    [][/\ Len(pulls') <= 1
       /\ (last'.op \in CheckOps /\ pulls # <<>>) =>
             /\ ~last'.pulled
             /\ immediates' <= immediates
             /\ UNCHANGED <<subscriptions, messages, checking, pulls, inflight>>]_vars

\* A timer tick found a pull outstanding, with a subscription waiting, and
\* called no pull.
C4_Witness ==
    /\ last.op = "tick"
    /\ ~last.pulled
    /\ Len(pulls) = 1
    /\ Waiting(subscriptions) # {}

\* C5: check() with no record waiting (empty registry, or every record at
\* current = concurrency) calls no pull and leaves the busy flag and all other
\* state as they were.
C5_NoPullWithoutWaiting ==
    [][(/\ last'.op \in CheckOps
        /\ \A i \in 1..Len(subscriptions) :
              subscriptions[i].current = subscriptions[i].concurrency) =>
          /\ ~last'.pulled
          /\ immediates' <= immediates
          /\ UNCHANGED <<subscriptions, messages, checking, pulls, inflight,
                         started, timers>>]_vars

\* check() was called on an idle dealer whose records are all full.
C5_Witness ==
    /\ last.op = "check"
    /\ ~last.pulled
    /\ ~checking
    /\ Len(subscriptions) > 0
    /\ \A i \in 1..Len(subscriptions) :
          subscriptions[i].current = subscriptions[i].concurrency

\* C6: after stop() the dealer is unstarted and its timer is cancelled: no
\* timer tick calls check() until start() is called again.
C6_StopCancelsTimer ==
    /\ last.op = "stop" => (~started /\ timers = {})
    /\ last.op = "tick" => started

\* C7: every message an outstanding pull yields, of a type it had requested,
\* is handed to exactly one handler.
C7_RequestedMessageHandled ==
    (last.op = "callback" /\ last.asked) => Len(last.invoked) = 1

\* C7 (amended): a message the pull source yields is handed to at most one
\* handler, and to exactly one if and only if a waiting record of its type is
\* registered when the callback runs.
C7_HandledIfStillWaiting ==
    [][(last'.op = "callback" /\ last'.dealt # NotDealt) =>
          /\ Len(last'.invoked) <= 1
          /\ Len(last'.invoked) = 1 <=> WaitingOfType(subscriptions, last'.dealt) # {}]_vars

\* A pull callback handed a requested message to a handler.
C7_Witness ==
    /\ last.op = "callback"
    /\ last.asked
    /\ Len(last.invoked) = 1
    /\ inflight[last.invoked[1]] > 0

\* C8: the completion closure of a message decrements the counter of the
\* record the message was dealt to, and of no other record.
C8_ClosureCompletesItsRecord ==
    [][last'.op = "completeFn" =>
          /\ Len(subscriptions') = Len(subscriptions)
          /\ \A i \in 1..Len(subscriptions) :
                subscriptions'[i] =
                    IF subscriptions[i].rid = last'.target
                    THEN [subscriptions[i] EXCEPT !.current = subscriptions[i].current - 1]
                    ELSE subscriptions[i]]_vars

\* C9: of two waiting records of a type, A before B, two successive deals of
\* that type serve A first and B second.  (last.expect is the record B that
\* stood first among the other waiting records when A was served by the
\* previous operation.)
C9_RoundRobin ==
    last.expect # 0 => last.invoked = <<last.expect>>

\* The second of two successive deals went to B although A, served just
\* before, still had a free slot.
C9_Witness ==
    /\ last.expect # 0
    /\ last.invoked = <<last.expect>>
    /\ \E i \in 1..Len(subscriptions) :
          /\ subscriptions[i].rid # last.expect
          /\ subscriptions[i].type = last.dealt
          /\ subscriptions[i].concurrency = records[last.expect].concurrency
          /\ subscriptions[i].current > 0
          /\ subscriptions[i].current < subscriptions[i].concurrency

\* C10: a deal invokes at most one handler; when a waiting record of the
\* message's type exists it invokes, once, the handler of the first such
\* record, increments that record's current by 1 and leaves the type,
\* concurrency and current of every other record as they were.
C10_DealServesFirstWaiting ==
    [][last'.dealt # NotDealt =>
          LET hits == WaitingOfType(subscriptions, last'.dealt)
          IN /\ Len(last'.invoked) <= 1
             /\ hits = {} => (last'.invoked = <<>> /\ subscriptions' = subscriptions)
             /\ hits # {} =>
                   LET first == CHOOSE i \in hits : \A j \in hits : i <= j
                       served == subscriptions[first].rid
                   IN /\ last'.invoked = <<served>>
                      /\ inflight' = [inflight EXCEPT ![served] = inflight[served] + 1]
                      /\ Len(subscriptions') = Len(subscriptions)
                      /\ \A i \in 1..Len(subscriptions) :
                            \E j \in 1..Len(subscriptions') :
                               subscriptions'[j] =
                                  IF i = first
                                  THEN [subscriptions[i] EXCEPT
                                           !.current = subscriptions[i].current + 1]
                                  ELSE subscriptions[i]]_vars

\* A direct deal served one of two waiting records of the message's type.
C10_Witness ==
    /\ last.op = "deal"
    /\ Len(last.invoked) = 1
    /\ \E i \in 1..Len(subscriptions) :
          /\ subscriptions[i].rid # last.invoked[1]
          /\ subscriptions[i].type = last.dealt
          /\ subscriptions[i].current < subscriptions[i].concurrency

\* The records of the registry complete(subscriber, type) may pick: those of
\* that subscriber and type with current > 0.
Completable(subs, subscriber, type) ==
    {i \in 1..Len(subs) : /\ subs[i].subscriber = subscriber
                          /\ subs[i].type = type
                          /\ subs[i].current > 0}

\* The step is a call complete(subscriber, type): made for a message dealt to
\* a record of that subscriber and type, or made with no such message in flight.
CompleteCalled(subscriber, type) ==
    \/ /\ last'.op = "completeFn"
       /\ records[last'.target].subscriber = subscriber
       /\ records[last'.target].type = type
    \/ CompleteIdle(subscriber, type)

\* C11: complete(subscriber, type), when some record of the registry has that
\* subscriber and type and current > 0, decrements by exactly 1 the current of
\* the first such record in registry order and changes nothing else: no other
\* counter, not the order, not the membership of the registry, no other field
\* of the dealer.
C11_CompleteDecrementsFirstMatch ==
    [][\A s \in Subscribers, t \in Types :
          (CompleteCalled(s, t) /\ Completable(subscriptions, s, t) # {}) =>
              LET hits == Completable(subscriptions, s, t)
                  first == CHOOSE i \in hits : \A j \in hits : i <= j
              IN /\ subscriptions' =
                        [subscriptions EXCEPT
                            ![first].current = subscriptions[first].current - 1]
                 /\ UNCHANGED <<messages, started, checking, timers,
                                immediates, pulls>>]_vars

\* A completion has just decremented one of two records of the same subscriber
\* and type, neither of which was ever removed: the second still has a message
\* to complete, and the first has a free slot.
C11_Witness ==
    /\ last.op = "completeFn"
    /\ Len(subscriptions) = 2
    /\ Len(records) = 2
    /\ subscriptions[1].subscriber = subscriptions[2].subscriber
    /\ subscriptions[1].type = subscriptions[2].type
    /\ subscriptions[1].current < subscriptions[1].concurrency
    /\ subscriptions[2].current > 0

\* C12: complete(subscriber, type) leaves the whole registry unchanged when no
\* record has that subscriber and type with current > 0; no complete call
\* creates or removes a record or leaves a counter below 0.
C12_CompleteWithoutMatchIsNoOp ==
    [][\A s \in Subscribers, t \in Types :
          CompleteCalled(s, t) =>
              /\ Completable(subscriptions, s, t) = {} =>
                    subscriptions' = subscriptions
              /\ Len(subscriptions') = Len(subscriptions)
              /\ \A i \in 1..Len(subscriptions') :
                    /\ subscriptions'[i].current >= 0
                    /\ subscriptions'[i].rid = subscriptions[i].rid]_vars

\* The handler of a message signalled completion after its record had been
\* unsubscribed, and no record of that subscriber and type is registered.
C12_Witness ==
    /\ last.op = "completeFn"
    /\ subscriptions # <<>>
    /\ \A i \in 1..Len(subscriptions) :
          \/ subscriptions[i].subscriber # records[last.target].subscriber
          \/ subscriptions[i].type # records[last.target].type

\* C13: with the default pull source, a message leaves the buffer only in a
\* step that also hands it to the handler of a record that was waiting and has
\* the message's type, and no buffered message is handed to a handler twice.
C13_BufferedMessageDeliveredOnce ==
    [][/\ \A k \in 1..Len(messages) :
             messages[k] \notin Range(messages') =>
                /\ last'.message = messages[k].id
                /\ last'.dealt = TypeSelector(messages[k])
                /\ Len(last'.invoked) = 1
                /\ \E i \in WaitingOfType(subscriptions, TypeSelector(messages[k])) :
                      subscriptions[i].rid = last'.invoked[1]
       /\ (last'.message # 0 /\ last'.invoked # <<>>) =>
             last'.message \notin last.handled]_vars

\* Two pushed messages have both been pulled and handed to a handler, the
\* second just now, and the buffer is empty.
C13_Witness ==
    /\ last.op \in CheckOps
    /\ last.message # 0
    /\ Len(last.invoked) = 1
    /\ Cardinality(last.handled) = 2
    /\ messages = <<>>

\* C14: after any sequence of start() and stop() calls at most one recurring
\* check timer is armed.
C14_AtMostOneTimer ==
    Cardinality(timers) <= 1

\* C15: when the pull callback runs with a message, the busy flag is cleared
\* and the follow-up check scheduled before the message is dealt: _deal, and
\* so the handler, runs with the busy flag false and the follow-up already
\* scheduled, and the follow-up is still to run when the step is over.
C15_ClearedAndScheduledBeforeDeal ==
    [][(last'.op = "callback" /\ last'.dealt # NotDealt) =>
          /\ ~last'.busy
          /\ last'.queued = immediates + 1
          /\ ~checking'
          /\ immediates' = immediates + 1]_vars

\* The pull source has just answered with a message that was handed to a
\* handler; the follow-up check is scheduled and has not run.
C15_Witness ==
    /\ last.op = "callback"
    /\ Len(last.invoked) = 1
    /\ ~last.busy
    /\ last.queued = 1
    /\ immediates = 1

\* C16: when the pull callback runs with an error or without a message, the
\* busy flag is cleared, no handler is invoked, no follow-up check is
\* scheduled and the registry is unchanged; a check() made next calls the pull
\* source again if a record is waiting.
C16_NothingPulledLeavesIdle ==
    [][(last'.op = "callback" /\ last'.dealt = NotDealt) =>
          /\ ~checking'
          /\ last'.invoked = <<>>
          /\ inflight' = inflight
          /\ immediates' = immediates
          /\ subscriptions' = subscriptions
          /\ pulls' = <<>>
          /\ Waiting(subscriptions') # {} =>
                LET d == Check([subscriptions |-> subscriptions',
                                messages |-> messages', checking |-> checking',
                                pulls |-> pulls', immediates |-> immediates',
                                pulled |-> FALSE, dealt |-> NotDealt,
                                invoked |-> <<>>, message |-> 0,
                                busy |-> FALSE, queued |-> 0], external)
                IN d.pulled /\ Len(d.pulls) = 1]_vars

\* The pull source has just answered with an error or with nothing while a
\* record is waiting: the dealer is idle, no call is outstanding.
C16_Witness ==
    /\ last.op = "callback"
    /\ last.dealt = NotDealt
    /\ Waiting(subscriptions) # {}
    /\ ~checking
    /\ pulls = <<>>

\* C17: whenever check() calls the pull source, the types it passes are not
\* empty, hold no type twice and are exactly the types t for which some record
\* of the registry has type t and current < concurrency at the call.
C17_PullAsksForWaitingTypes ==
    [][last'.pulled =>
          /\ pulls' # <<>>
          /\ LET types == pulls'[Len(pulls')]
             IN /\ Len(types) > 0
                /\ \A i, j \in 1..Len(types) : types[i] = types[j] => i = j
                /\ Range(types) =
                      {subscriptions[i].type : i \in Waiting(subscriptions)}]_vars

\* check() has just called the pull source with one type while two records of
\* that type are waiting.
C17_Witness ==
    /\ last.pulled
    /\ Len(pulls) = 1
    /\ Len(pulls[1]) = 1
    /\ Cardinality(WaitingOfType(subscriptions, pulls[1][1])) = 2

\* The number of records of the type of subs[i] that precede it in the registry.
Ahead(subs, i) == Cardinality({j \in 1..(i - 1) : subs[j].type = subs[i].type})

\* The index of record rid in the registry, 0 when it is not registered.
Position(subs, rid) ==
    IF \E i \in 1..Len(subs) : subs[i].rid = rid
    THEN CHOOSE i \in 1..Len(subs) : subs[i].rid = rid
    ELSE 0

\* C18: bounded wait.  For a record R of type t that is waiting and stays
\* registered, every deal of a type-t message either is handed to R or is
\* handed to a record that preceded R, which leaves one type-t record fewer
\* before R; and no subscribe, unsubscribe, complete or check puts a type-t
\* record before R.  So with k records of type t before R, at most k deals
\* of type-t messages go to other records before one goes to R.
C18_BoundedWait ==
    [][\A i \in Waiting(subscriptions) :
          LET R == subscriptions[i]
              at == Position(subscriptions', R.rid)
          IN at # 0 =>
                IF last'.dealt = R.type
                THEN \/ last'.invoked = <<R.rid>>
                     \/ /\ Len(last'.invoked) = 1
                        /\ Ahead(subscriptions', at) = Ahead(subscriptions, i) - 1
                ELSE Ahead(subscriptions', at) <= Ahead(subscriptions, i)]_vars

\* Three records of one type were registered and two messages of the type
\* dealt, to the first and to the second: both are now behind the third, which
\* had two records before it and is first in line, and both still have a free
\* slot.
C18_Witness ==
    /\ Len(subscriptions) = 3
    /\ \A i \in 1..3 : subscriptions[i].type = last.dealt
    /\ subscriptions[1].rid = 3
    /\ subscriptions[2].rid = 1
    /\ subscriptions[3].rid = 2
    /\ last.invoked = <<2>>
    /\ subscriptions[1].current = 0
    /\ subscriptions[2].current = 1
    /\ subscriptions[3].current = 1
    /\ \A i \in 2..3 : subscriptions[i].current < subscriptions[i].concurrency

\* C19: with the default pull source the buffer keeps its messages in the
\* order they were pushed; a pull takes the earliest buffered message whose
\* type is among the waiting types and leaves the others in order, so a
\* message is never handed to a handler while a message of its type that
\* entered the buffer earlier is still buffered.
C19_FifoWithinType ==
    [][/\ \A i, j \in 1..Len(messages') :
             i < j => messages'[i].id < messages'[j].id
       /\ last'.message # 0 =>
             LET requested == {subscriptions[i].type : i \in Waiting(subscriptions)}
                 hits == {k \in 1..Len(messages) : messages[k].id = last'.message}
             IN /\ hits # {}
                /\ \A k \in hits :
                      /\ TypeSelector(messages[k]) \in requested
                      /\ \A j \in 1..(k - 1) :
                            TypeSelector(messages[j]) \notin requested
                      /\ messages' = Splice(messages, k)
                /\ \A j \in 1..Len(messages') :
                      TypeSelector(messages'[j]) = last'.dealt =>
                         messages'[j].id > last'.message]_vars

\* The first of two buffered messages of one type has just been handed to a
\* handler; the second is still in the buffer.
C19_Witness ==
    /\ last.op \in CheckOps
    /\ last.message = 1
    /\ Len(last.invoked) = 1
    /\ Len(messages) = 1
    /\ messages[1].id = 2
    /\ TypeSelector(messages[1]) = last.dealt

\* The message with identity id is in the buffer and has type t.
Buffered(id, t) ==
    \E k \in 1..Len(messages) : messages[k].id = id /\ TypeSelector(messages[k]) = t

\* Some record of type t is registered.
Registered(t) == \E i \in 1..Len(subscriptions) : subscriptions[i].type = t

\* C20: with the default pull source, a started dealer whose timer ticks and
\* handlers that complete every dealt message, a buffered message of type t
\* is eventually handed to a handler, unless at some time no record of type t
\* is registered.
C20_BufferedMessageDelivered ==
    \A id \in 1..MaxMessages : \A t \in Types :
        (Buffered(id, t) /\ started /\ timers # {} /\ Registered(t))
            ~> (id \in last.handled \/ ~Registered(t))

\* A timer tick has pulled a buffered message and handed it to a handler.
C20_Witness ==
    /\ last.op = "tick"
    /\ last.message # 0
    /\ Len(last.invoked) = 1
    /\ last.message \in last.handled
    /\ started

====
